---- MODULE Spec2Model ----
(***************************************************************************)
(* wikipath: breadth-first search for the shortest link path between two   *)
(* Wikipedia articles.  The model follows the GetAPIPage/GetAPIResp        *)
(* iteration of the program: one traversal thread (Walk) that owns the     *)
(* queue and the visited map, one goroutine per link of the dequeued page, *)
(* a buffered result channel, and the package-level query template baseQ   *)
(* that every request is built from.                                       *)
(***************************************************************************)
EXTENDS Integers, Sequences, FiniteSets, TLC

\* ------------------------------------------------------------------ bounds
NumTitles == 5
MaxPageSize == 2
MaxFail == 1

Titles == 1..NumTitles

\* ------------------------------------------------- the remote link source
\* A title doubles as its page id: the source orders pages by it.
\* NoTitle is the unset "titles" parameter.
NoTitle == 0

\* The continuation values of a response ("continue"/"plcontinue"): the page
\* id they were issued for and the index of the next page of its links.
\* NoCont is APIResp.Continue == nil.
NoCont == [id |-> 0, idx |-> 0]

Cont(id, idx) == [id |-> id, idx |-> idx]

\* Link lists of the graphs the search is run on; a title not listed has no
\* links.  Lists are sorted and duplicate free, as the API returns them.
Diamond ==
    [n \in Titles |-> CASE n = 1 -> <<2, 3>> [] n = 2 -> <<4>>
                        [] n = 3 -> <<4>> [] OTHER -> <<>>]

Cyclic ==
    [n \in Titles |-> CASE n = 1 -> <<2>> [] n = 2 -> <<1, 3>>
                        [] n = 3 -> <<1>> [] OTHER -> <<>>]

Fan ==
    [n \in Titles |-> CASE n = 3 -> <<1, 2>> [] n = 1 -> <<2, 4>>
                        [] n = 2 -> <<4>> [] OTHER -> <<>>]

Chain ==
    [n \in Titles |-> CASE n = 1 -> <<2>> [] n = 2 -> <<3>>
                        [] n = 3 -> <<4>> [] OTHER -> <<>>]

Detour ==
    [n \in Titles |-> CASE n = 2 -> <<1, 3>> [] n = 1 -> <<5>>
                        [] n = 3 -> <<4>> [] n = 4 -> <<5>> [] OTHER -> <<>>]

Graphs == {Diamond, Cyclic, Fan, Chain, Detour}

Min(a, b) == IF a < b THEN a ELSE b

\* Number of pages the source splits a link list of length len into.
NumPages(len, size) == IF len = 0 THEN 1 ELSE (len + size - 1) \div size

\* The k-th page of a link list.
Chunk(ls, size, k) ==
    IF k > NumPages(Len(ls), size) THEN <<>>
    ELSE SubSeq(ls, (k - 1) * size + 1, Min(k * size, Len(ls)))

\* What the source holds for a title: a missing page has no links.
SourceLinks(src, title) ==
    IF title \in src.missing THEN <<>> ELSE src.links[title]

\* The page a request starts from.  A continuation issued for the requested
\* page resumes there; one issued for another page is compared by page id,
\* as the API does: links of pages before it are skipped, later pages start
\* at their first link.
FirstPage(src, title, cont) ==
    IF cont = NoCont THEN 1
    ELSE IF cont.id = title THEN cont.idx
    ELSE IF cont.id < title THEN 1
    ELSE NumPages(Len(SourceLinks(src, title)), src.size) + 1

\* The decoded response to a request carrying `title` and `cont`.
SourceResp(src, title, cont) ==
    LET k == FirstPage(src, title, cont)
        n == NumPages(Len(SourceLinks(src, title)), src.size)
    IN  [Links    |-> Chunk(SourceLinks(src, title), src.size, k),
         Continue |-> IF k < n THEN Cont(title, k + 1) ELSE NoCont,
         Missing  |-> title \in src.missing,
         NS       |-> IF title \in src.ns THEN 1 ELSE 0]

\* ------------------------------------------------------------------ state
VARIABLES
    source,   \* the remote source: link lists, missing and namespaced titles, page size
    s, t,     \* Walk's arguments
    baseQ,    \* the package-level query template shared by every request
    visited,  \* Walk's visited map (the keys set to true)
    heap,     \* the *APIPage values the queue and Parent pointers refer to
    queue,    \* Walk's queue, as references into heap
    top,      \* the page being expanded (reference into heap, 0 = none)
    pages,    \* the buffered result channel of the current fan-out
    recvd,    \* iterations of the receive loop done for top
    calls,    \* GetAPIPage calls in progress: Walk's own for s, then one per goroutine
    pc,       \* where Walk is: "GetStart", "Loop", "Recv", "Done"
    result,   \* what Walk returned
    fails,    \* fetches that have failed so far
    reqs,     \* history: every request issued
    nfetch,   \* history: GetAPIPage calls started, per title
    nreq,     \* history: number of requests issued
    returned, \* history: what each successful GetAPIPage call returned
    failed,   \* history: titles whose GetAPIPage call returned an error
    ending    \* history: the return statement Walk ended at

vars ==
    <<source, s, t, baseQ, visited, heap, queue, top, pages, recvd, calls, pc,
      result, fails, reqs, nfetch, nreq, returned, failed, ending>>

\* ------------------------------------------------------- pages and paths
\* The APIPage GetAPIPage allocates: Title and Links only, so Missing stays
\* nil and NS stays 0 whatever the responses say.
NewAPIPage(title) ==
    [Title |-> title, Links |-> <<>>, Missing |-> FALSE, NS |-> 0, Parent |-> 0]

\* The nil *APIPage.
Nil == NewAPIPage(NoTitle)

Valid(ap) == ap.Missing = FALSE /\ ap.NS = 0

RECURSIVE Trace(_, _)
\* The titles from the page at reference p back to the page without Parent,
\* first page last visited.
Trace(h, p) == IF p = 0 THEN <<>> ELSE Trace(h, h[p].Parent) \o <<h[p].Title>>

\* NewPath of a page not yet stored in heap.
NewPath(h, ap) == Trace(h, ap.Parent) \o <<ap.Title>>

\* Walk's results: `return nil, false`, `return NewPath(..), true`, and the
\* process ended by a fatal runtime error before Walk returned.
NilFalse == [ok |-> FALSE, path |-> <<>>, fatal |-> FALSE]

Found(path) == [ok |-> TRUE, path |-> path, fatal |-> FALSE]

Fatal == [ok |-> FALSE, path |-> <<>>, fatal |-> TRUE]

\* ------------------------------------------------------------------- init
\* A GetAPIPage call: the title asked for, the position in GetAPIResp, the
\* previous response's continuation, the APIPage being assembled and, once
\* it has returned, what it returned.
NewCall(title, goroutine) ==
    [title |-> title, pc |-> IF goroutine THEN "check" ELSE "set_titles",
     prev |-> NoCont, ap |-> NewAPIPage(title), res |-> "none", go |-> goroutine]

Sources ==
    [links : Graphs, missing : {{}} \cup {{n} : n \in Titles},
     ns : {{}} \cup {{n} : n \in Titles}, size : 1..MaxPageSize]

Init ==
    /\ source \in {x \in Sources : x.missing = {} \/ x.ns = {}}
    /\ s \in Titles
    /\ t \in Titles
    /\ baseQ = [titles |-> NoTitle, plcontinue |-> NoCont]
    /\ visited = {}
    /\ heap = <<>>
    /\ queue = <<>>
    /\ top = 0
    /\ pages = <<>>
    /\ recvd = 0
    /\ calls = <<>>
    /\ pc = "Walk"
    /\ result = NilFalse
    /\ fails = 0
    /\ reqs = {}
    /\ nfetch = [n \in Titles |-> 0]
    /\ nreq = 0
    /\ returned = {}
    /\ failed = {}
    /\ ending = "running"

\* ---------------------------------------------------------------- fetching
\* The process is alive: no fatal runtime error has ended it.
Alive == ~result.fatal

\* GetAPIResp, q.Set("continue", ...) and q.Set("plcontinue", ...): q is the
\* map baseQ itself, so the values stay in the template for later requests.
SetContinue(i) ==
    /\ Alive
    /\ calls[i].pc = "set_continue"
    /\ baseQ' = [baseQ EXCEPT !.plcontinue = calls[i].prev]
    /\ calls' = [calls EXCEPT ![i].pc = "set_titles"]
    /\ UNCHANGED <<source, s, t, visited, heap, queue, top, pages, recvd, pc,
                   result, fails, reqs, nfetch, nreq, returned, failed, ending>>

\* GetAPIResp, q.Set("titles", title).
SetTitles(i) ==
    /\ Alive
    /\ calls[i].pc = "set_titles"
    /\ baseQ' = [baseQ EXCEPT !.titles = calls[i].title]
    /\ calls' = [calls EXCEPT ![i].pc = "request"]
    /\ UNCHANGED <<source, s, t, visited, heap, queue, top, pages, recvd, pc,
                   result, fails, reqs, nfetch, nreq, returned, failed, ending>>

\* The request record kept in the history.
Request(c, q) ==
    [for |-> c.title, own |-> c.prev, title |-> q.titles, cont |-> q.plcontinue]

\* The call after GetAPIPage has returned (ap, nil) or (nil, err).
Return(c, how) == [c EXCEPT !.pc = IF c.go THEN "send" ELSE "ret", !.res = how]

\* GetAPIPage after a decoded response ar: append the page's links, keep ar
\* as prev, and leave the loop when ar.Continue is nil.
Appended(c, ar) ==
    LET d == [c EXCEPT !.ap.Links = c.ap.Links \o ar.Links, !.prev = ar.Continue]
    IN  IF ar.Continue = NoCont THEN Return(d, "page")
        ELSE [d EXCEPT !.pc = "set_continue"]

\* GetAPIResp from q.Encode() on, and GetAPIPage's handling of the outcome:
\* the request carries whatever baseQ holds now.  The second disjunct is
\* every way GetAPIPage returns an error: http.Get fails, the body does not
\* decode, or the response holds no page.
Get(i) ==
    /\ Alive
    /\ calls[i].pc = "request"
    /\ reqs' = reqs \cup {Request(calls[i], baseQ)}
    /\ nreq' = nreq + 1
    /\ \/ /\ calls' = [calls EXCEPT ![i] =
                         Appended(calls[i], SourceResp(source, baseQ.titles, baseQ.plcontinue))]
          /\ returned' =
                IF calls'[i].res = "page"
                THEN returned \cup {[title |-> calls[i].title, Links |-> calls'[i].ap.Links]}
                ELSE returned
          /\ UNCHANGED <<fails, failed>>
       \/ /\ fails < MaxFail
          /\ fails' = fails + 1
          /\ calls' = [calls EXCEPT ![i] = Return(calls[i], IF calls[i].go THEN "nil" ELSE "err")]
          /\ failed' = failed \cup {calls[i].title}
          /\ UNCHANGED returned
    /\ UNCHANGED <<source, s, t, baseQ, visited, heap, queue, top, pages, recvd,
                   pc, result, nfetch, ending>>

\* The goroutine's first statement: the read of the visited map, then either
\* the nil result or the call of GetAPIPage.
CheckVisited(i) ==
    /\ Alive
    /\ calls[i].pc = "check"
    /\ IF calls[i].title \in visited
       THEN /\ calls' = [calls EXCEPT ![i] = Return(calls[i], "nil")]
            /\ UNCHANGED nfetch
       ELSE /\ calls' = [calls EXCEPT ![i].pc = "set_titles"]
            /\ nfetch' = [nfetch EXCEPT ![calls[i].title] = @ + 1]
    /\ UNCHANGED <<source, s, t, baseQ, visited, heap, queue, top, pages, recvd,
                   pc, result, fails, reqs, nreq, returned, failed, ending>>

\* What a goroutine puts on the channel: nil, or its page with Parent = top.
Sent(c, parent) == IF c.res = "nil" THEN Nil ELSE [c.ap EXCEPT !.Parent = parent]

\* The channel made for a single result.
ChanOfOne(ap) == 1

\* make(chan *APIPage, len(top.Links)): the capacity of the result channel.
ChanCap(ap) == Len(ap.Links)

\* A goroutine that marks its own title visited when it sends.
SendAndMark(i) ==
    /\ Alive
    /\ calls[i].pc = "send"
    /\ Len(pages) < ChanCap(heap[top])
    /\ pages' = Append(pages, Sent(calls[i], top))
    /\ calls' = [calls EXCEPT ![i].pc = "done"]
    /\ visited' = visited \cup {calls[i].title}
    /\ UNCHANGED <<source, s, t, baseQ, heap, queue, top, recvd, pc,
                   result, fails, reqs, nfetch, nreq, returned, failed, ending>>

\* The goroutine's send on the buffered channel (capacity len(top.Links)).
Send(i) ==
    /\ Alive
    /\ calls[i].pc = "send"
    /\ Len(pages) < ChanCap(heap[top])
    /\ pages' = Append(pages, Sent(calls[i], top))
    /\ calls' = [calls EXCEPT ![i].pc = "done"]
    /\ UNCHANGED <<source, s, t, baseQ, visited, heap, queue, top, recvd, pc,
                   result, fails, reqs, nfetch, nreq, returned, failed, ending>>

\* ------------------------------------------------------------------- Walk
\* Walk's first statements: the visited map and the call GetAPIPage(s).
CallStart ==
    /\ pc = "Walk"
    /\ calls' = <<NewCall(s, FALSE)>>
    /\ nfetch' = [nfetch EXCEPT ![s] = @ + 1]
    /\ pc' = "GetStart"
    /\ UNCHANGED <<source, s, t, baseQ, visited, heap, queue, top, pages, recvd,
                   result, fails, reqs, nreq, returned, failed, ending>>

\* Walk once GetAPIPage(s) has returned: the error and validity test, the
\* s == t test, and the queue holding sPage.
StartReturn ==
    /\ Alive
    /\ pc = "GetStart"
    /\ calls[1].pc = "ret"
    /\ calls' = <<>>
    /\ IF calls[1].res = "err" \/ ~Valid(calls[1].ap)
       THEN /\ result' = NilFalse
            /\ pc' = "Done"
            /\ ending' = "start"
            /\ UNCHANGED <<heap, queue>>
       ELSE IF s = t
       THEN /\ result' = Found(NewPath(heap, NewAPIPage(s)))
            /\ pc' = "Done"
            /\ ending' = "same"
            /\ UNCHANGED <<heap, queue>>
       ELSE /\ heap' = <<calls[1].ap>>
            /\ queue' = <<1>>
            /\ pc' = "Loop"
            /\ UNCHANGED <<result, ending>>
    /\ UNCHANGED <<source, s, t, baseQ, visited, top, pages, recvd, fails, reqs,
                   nfetch, nreq, returned, failed>>

\* One iteration of `for len(queue) > 0` up to the receive loop: pop top,
\* skip it if it is not valid, make the channel and start one goroutine per
\* link; with the queue empty Walk returns (nil, false).
Dequeue ==
    /\ Alive
    /\ pc = "Loop"
    /\ IF queue = <<>>
       THEN /\ result' = NilFalse
            /\ pc' = "Done"
            /\ ending' = "exhausted"
            /\ UNCHANGED <<queue, top, pages, recvd, calls>>
       ELSE /\ queue' = Tail(queue)
            /\ top' = Head(queue)
            /\ UNCHANGED <<result, ending>>
            /\ IF ~Valid(heap[Head(queue)])
               THEN UNCHANGED <<pages, recvd, calls, pc>>
               ELSE /\ pages' = <<>>
                    /\ recvd' = 0
                    /\ calls' = [k \in 1..Len(heap[Head(queue)].Links) |->
                                    NewCall(heap[Head(queue)].Links[k], TRUE)]
                    /\ pc' = IF heap[Head(queue)].Links = <<>> THEN "Loop" ELSE "Recv"
    /\ UNCHANGED <<source, s, t, baseQ, visited, heap, fails, reqs, nfetch, nreq,
                   returned, failed>>

\* A receive loop that stops at the first result.
RangeDoneAfterFirst(n, ap) == n >= 1

\* `for range top.Links` has run its last iteration after n receives.
RangeDone(n, ap) == n = Len(ap.Links)

\* One iteration of `for range top.Links`: receive a result, drop nil,
\* return the path when it is the target, else mark it visited and queue it.
Receive ==
    /\ Alive
    /\ pc = "Recv"
    /\ pages # <<>>
    /\ pages' = Tail(pages)
    /\ recvd' = recvd + 1
    /\ IF Head(pages) = Nil
       THEN /\ pc' = IF RangeDone(recvd + 1, heap[top]) THEN "Loop" ELSE "Recv"
            /\ UNCHANGED <<visited, heap, queue, result, ending>>
       ELSE IF Head(pages).Title = t
       THEN /\ result' = Found(NewPath(heap, Head(pages)))
            /\ pc' = "Done"
            /\ ending' = "found"
            /\ UNCHANGED <<visited, heap, queue>>
       ELSE /\ visited' = visited \cup {Head(pages).Title}
            /\ heap' = Append(heap, Head(pages))
            /\ queue' = Append(queue, Len(heap) + 1)
            /\ pc' = IF RangeDone(recvd + 1, heap[top]) THEN "Loop" ELSE "Recv"
            /\ UNCHANGED <<result, ending>>
    /\ UNCHANGED <<source, s, t, baseQ, top, calls, fails, reqs, nfetch, nreq,
                   returned, failed>>

\* ------------------------------------------------------- unsynchronised maps
\* baseQ and visited are plain Go maps used without a lock.  Besides the
\* interleavings above, the runtime ends the process with a fatal error when
\* it sees two goroutines in one map at once.  `result` records what Walk
\* returned, so only a fault before Walk returns is recorded in it.
WritesBaseQ(c) == c.pc \in {"set_continue", "set_titles"}

ReadsBaseQ(c) == c.pc = "request"

\* fatal error: concurrent map writes / concurrent map read and map write,
\* on baseQ.
BaseQFault ==
    /\ Alive
    /\ pc # "Done"
    /\ \E i, j \in DOMAIN calls :
          /\ i # j
          /\ WritesBaseQ(calls[i])
          /\ WritesBaseQ(calls[j]) \/ ReadsBaseQ(calls[j])
    /\ result' = Fatal
    /\ pc' = "Done"
    /\ ending' = "fatal"
    /\ UNCHANGED <<source, s, t, baseQ, visited, heap, queue, top, pages, recvd,
                   calls, fails, reqs, nfetch, nreq, returned, failed>>

\* Walk is about to execute visited[ap.Title] = true.
WritesVisited ==
    /\ pc = "Recv"
    /\ pages # <<>>
    /\ Head(pages) # Nil
    /\ Head(pages).Title # t

\* fatal error: concurrent map read and map write, on visited.
VisitedFault ==
    /\ Alive
    /\ WritesVisited
    /\ \E i \in DOMAIN calls : calls[i].pc = "check"
    /\ result' = Fatal
    /\ pc' = "Done"
    /\ ending' = "fatal"
    /\ UNCHANGED <<source, s, t, baseQ, visited, heap, queue, top, pages, recvd,
                   calls, fails, reqs, nfetch, nreq, returned, failed>>

\* ------------------------------------------------------------- specification
Next ==
    \/ CallStart
    \/ StartReturn
    \/ Dequeue
    \/ Receive
    \/ \E i \in DOMAIN calls : CheckVisited(i)
    \/ \E i \in DOMAIN calls : SetContinue(i)
    \/ \E i \in DOMAIN calls : SetTitles(i)
    \/ \E i \in DOMAIN calls : Get(i)
    \/ \E i \in DOMAIN calls : Send(i)
    \/ BaseQFault
    \/ VisitedFault

Spec == Init /\ [][Next]_vars

\* ------------------------------------------- the GetPage/PopulateLinks iteration
\* The earlier iteration of the program fetches the links with
\* Page.PopulateLinks, called by Walk for the start page and by one goroutine
\* per link.  Its query template baseQLinks is the map baseQ itself
\* (baseQLinks = baseQ), so the variable baseQ stands for both.

\* ar := apiResp{} before a response is decoded into it.
NoResp == [Links |-> <<>>, Continue |-> NoCont, Missing |-> FALSE, NS |-> 0]

\* apiResp.apiPage(): the response holds a page that exists in namespace 0.
HasAPIPage(ar) == ar.Missing = FALSE /\ ar.NS = 0

\* A call p.PopulateLinks(): the page's title, the position in the function,
\* the last decoded response ar, p.Links, and what the call returned.
NewPopulate(title) ==
    [title |-> title, pc |-> "set_titles", ar |-> NoResp, Links |-> <<>>,
     res |-> "none"]

\* One call, or two calls made by goroutines of the same fan-out; run one
\* after the other they are also two successive calls.
PopulateInit ==
    /\ source \in {x \in Sources : x.missing = {} \/ x.ns = {}}
    /\ calls \in {<<NewPopulate(a)>> : a \in Titles}
                 \cup {<<NewPopulate(a), NewPopulate(b)>> : a, b \in Titles}
    /\ s = calls[1].title
    /\ t = s
    /\ baseQ = [titles |-> NoTitle, plcontinue |-> NoCont]
    /\ visited = {}
    /\ heap = <<>>
    /\ queue = <<>>
    /\ top = 0
    /\ pages = <<>>
    /\ recvd = 0
    /\ pc = "Populate"
    /\ result = NilFalse
    /\ fails = 0
    /\ reqs = {}
    /\ nfetch = [n \in Titles |-> 0]
    /\ nreq = 0
    /\ returned = {}
    /\ failed = {}
    /\ ending = "running"

\* q := baseQLinks; q.Set("titles", p.Title).
PopulateSetTitles(i) ==
    /\ Alive
    /\ calls[i].pc = "set_titles"
    /\ baseQ' = [baseQ EXCEPT !.titles = calls[i].title]
    /\ calls' = [calls EXCEPT ![i].pc = "request"]
    /\ UNCHANGED <<source, s, t, visited, heap, queue, top, pages, recvd, pc,
                   result, fails, reqs, nfetch, nreq, returned, failed, ending>>

\* q.Encode(), http.Get and the decoding into ar, before the loop and at the
\* end of its body; the second disjunct is the return of err.
PopulateGet(i) ==
    /\ Alive
    /\ calls[i].pc = "request"
    /\ reqs' = reqs \cup {[for |-> calls[i].title, own |-> calls[i].ar.Continue,
                           title |-> baseQ.titles, cont |-> baseQ.plcontinue]}
    /\ nreq' = nreq + 1
    /\ \/ /\ calls' = [calls EXCEPT
                         ![i].ar = SourceResp(source, baseQ.titles, baseQ.plcontinue),
                         ![i].pc = "loop"]
          /\ UNCHANGED <<fails, failed>>
       \/ /\ fails < MaxFail
          /\ fails' = fails + 1
          /\ calls' = [calls EXCEPT ![i].pc = "done", ![i].res = "err"]
          /\ failed' = failed \cup {calls[i].title}
    /\ UNCHANGED <<source, s, t, baseQ, visited, heap, queue, top, pages, recvd,
                   pc, result, nfetch, returned, ending>>

\* `for ar.Continue != nil`: with no continuation in ar the loop is left and
\* PopulateLinks returns nil; else the body checks apiPage(), appends the
\* links of ar and sets continue/plcontinue for the next request.
PopulateLoop(i) ==
    /\ Alive
    /\ calls[i].pc = "loop"
    /\ IF calls[i].ar.Continue = NoCont
       THEN /\ calls' = [calls EXCEPT ![i].pc = "done", ![i].res = "nil"]
            /\ returned' = returned \cup
                  {[title |-> calls[i].title, Links |-> calls[i].Links]}
            /\ UNCHANGED <<baseQ, failed>>
       ELSE IF ~HasAPIPage(calls[i].ar)
       THEN /\ calls' = [calls EXCEPT ![i].pc = "done", ![i].res = "err"]
            /\ failed' = failed \cup {calls[i].title}
            /\ UNCHANGED <<baseQ, returned>>
       ELSE /\ calls' = [calls EXCEPT
                           ![i].Links = calls[i].Links \o calls[i].ar.Links,
                           ![i].pc = "request"]
            /\ baseQ' = [baseQ EXCEPT !.plcontinue = calls[i].ar.Continue]
            /\ UNCHANGED <<returned, failed>>
    /\ UNCHANGED <<source, s, t, visited, heap, queue, top, pages, recvd, pc,
                   result, fails, reqs, nfetch, nreq, ending>>

\* The call is about to write the shared template.
PopulateWrites(c) ==
    \/ c.pc = "set_titles"
    \/ c.pc = "loop" /\ c.ar.Continue # NoCont /\ HasAPIPage(c.ar)

\* fatal error: concurrent map writes / concurrent map read and map write,
\* on the template, with two calls in it at once.
PopulateFault ==
    /\ Alive
    /\ \E i, j \in DOMAIN calls :
          /\ i # j
          /\ PopulateWrites(calls[i])
          /\ PopulateWrites(calls[j]) \/ calls[j].pc = "request"
    /\ result' = Fatal
    /\ pc' = "Done"
    /\ ending' = "fatal"
    /\ UNCHANGED <<source, s, t, baseQ, visited, heap, queue, top, pages, recvd,
                   calls, fails, reqs, nfetch, nreq, returned, failed>>

PopulateNext ==
    \/ \E i \in DOMAIN calls : PopulateSetTitles(i)
    \/ \E i \in DOMAIN calls : PopulateGet(i)
    \/ \E i \in DOMAIN calls : PopulateLoop(i)
    \/ PopulateFault

PopulateSpec == PopulateInit /\ [][PopulateNext]_vars

\* ------------------------------------------------------ the graph searched
\* v is in the edge list the source holds for u.
Edge(u, v) == \E k \in DOMAIN SourceLinks(source, u) : SourceLinks(source, u)[k] = v

RECURSIVE Ball(_, _, _)
\* The titles within k edges of `from`, on paths that avoid `avoid`.
Ball(from, k, avoid) ==
    IF k = 0 THEN {from}
    ELSE LET B == Ball(from, k - 1, avoid)
         IN  B \cup {v \in Titles \ avoid : \E u \in B : Edge(u, v)}

ReachableAvoiding(from, to, avoid) == to \in Ball(from, NumTitles, avoid)

Reachable(from, to) == ReachableAvoiding(from, to, {})

\* The unweighted distance, for a reachable pair.
Dist(from, to) == CHOOSE k \in 0..NumTitles :
    /\ to \in Ball(from, k, {})
    /\ \A j \in 0..(k - 1) : to \notin Ball(from, j, {})

\* Every title exists and is an article, and no fetch has failed.
AllFetchesSucceed == source.missing = {} /\ source.ns = {} /\ fails = 0

Returned == pc = "Done" /\ ~result.fatal

\* ------------------------------------------------------------------ claims
\* C1: for a reachable target and with every fetch succeeding, the path Walk
\* returns has as many edges as the unweighted distance from start to target.
C1_ShortestPath ==
    (Returned /\ result.ok /\ AllFetchesSucceed /\ Reachable(s, t))
        => Len(result.path) - 1 = Dist(s, t)

\* C2: Walk(x, x) returns the path [x] and no edge-list fetch has been issued
\* for x when it returns.
C2_SameTitleNoFetch ==
    (pc = "Done" /\ s = t) => (result = Found(<<s>>) /\ nfetch[s] = 0 /\ nreq = 0)

\* C3: with the target unreachable from the start, Walk ends with the 'no
\* path exists' result, whatever the interleaving of the neighbor tasks.
C3_UnreachableEndsNoPath ==
    (pc = "Done" /\ ~Reachable(s, t)) => result = NilFalse

\* C4: the edge-list fetch of any identifier, the start included, is issued
\* at most once during a Walk.
C4_FetchedAtMostOnce == \A n \in Titles : nfetch[n] <= 1

\* C5: what a GetAPIPage call returns is the concatenation of all the pages
\* of the node's links, the list the source would deliver as a single page.
C5_DrainReturnsAllPages ==
    \A r \in returned : r.Links = SourceLinks(source, r.title)

\* C6: a path Walk returns begins with the start, ends with the target, and
\* each step of it is an edge of the source.
C6_PathIsValid ==
    (Returned /\ result.ok) =>
        /\ result.path[1] = s
        /\ result.path[Len(result.path)] = t
        /\ \A k \in 1..(Len(result.path) - 1) : Edge(result.path[k], result.path[k + 1])

\* C7: with the start missing or namespaced, Walk returns the start failure,
\* issues no request after the one that resolved the start, and never enters
\* the frontier loop.
C7_BadStartStopsAtOnce ==
    (pc = "Done" /\ s \in source.missing \cup source.ns) =>
        /\ ending = "start"
        /\ nreq <= 1
        /\ heap = <<>>

\* C8: when the fetch of a neighbor fails and the target is reachable from
\* the start through titles whose fetches succeed, Walk does not abort: what
\* it returns is still a path to the target.
C8_FailedNeighborIsSkipped ==
    (Returned /\ failed # {} /\ s \notin failed
        /\ source.missing = {} /\ source.ns = {}
        /\ ReachableAvoiding(s, t, failed)) =>
        /\ result.ok
        /\ result.path[Len(result.path)] = t

\* C9: every request issued on behalf of a title carries that title and that
\* call's own continuation, never values written by another call.
C9_RequestsAreIndependent == \A r \in reqs : r.title = r.for /\ r.cont = r.own

\* C10: a failure of the start node is never reported with the result value
\* of frontier exhaustion; the three outcomes are distinguishable.
C10_OutcomesDistinct ==
    /\ (pc = "Done" /\ ending = "start") => result # NilFalse
    /\ (pc = "Done") => ending \in {"start", "same", "found", "exhausted"}

\* The pages Walk has appended to its queue so far, the start's entry first.
Enqueued == DOMAIN heap

\* Length of the parent chain of the page at reference i back to the start.
Depth(i) == Len(Trace(heap, i)) - 1

NoRepeat(path) == \A j, k \in DOMAIN path : path[j] = path[k] => j = k

\* C11: every identifier is appended to the frontier queue at most once
\* during a Walk, the start's initial entry included.
C11_EnqueuedAtMostOnce ==
    \A i, j \in Enqueued : heap[i].Title = heap[j].Title => i = j

\* C12: every queued page has the depth d of the page dequeued last or d + 1,
\* the queue is ordered by depth, and with all fetches succeeding that depth
\* is the title's distance from the start.
C12_QueueIsLevelOrdered ==
    /\ \A k \in DOMAIN queue :
          top # 0 => Depth(queue[k]) \in {Depth(top), Depth(top) + 1}
    /\ \A j, k \in DOMAIN queue : j < k => Depth(queue[j]) <= Depth(queue[k])
    /\ AllFetchesSucceed =>
          \A k \in DOMAIN queue : Depth(queue[k]) = Dist(s, heap[queue[k]].Title)

\* C13: the fan-out of a dequeued page is a barrier: one task per entry of
\* top's edge list, and Walk is back at the head of its loop only when it has
\* received that many results; every result on the channel belongs to top.
C13_FanOutIsBarrier ==
    /\ pc = "Recv" =>
          /\ Len(calls) = Len(heap[top].Links)
          /\ \A i \in DOMAIN calls : calls[i].go /\ calls[i].title = heap[top].Links[i]
          /\ recvd < Len(heap[top].Links)
    /\ (pc = "Loop" /\ top # 0) =>
          /\ recvd = Len(heap[top].Links)
          /\ pages = <<>>
          /\ \A i \in DOMAIN calls : calls[i].pc = "done"
    /\ \A k \in DOMAIN pages : pages[k] # Nil => pages[k].Parent = top

\* A fan-out of two tasks has been received in full and the next page waits.
C13_Witness ==
    /\ pc = "Loop"
    /\ top # 0
    /\ recvd = Len(heap[top].Links)
    /\ recvd >= 2
    /\ queue # <<>>

\* The titles the source reports as missing or namespaced.
Unavailable == source.missing \cup source.ns

\* C14: no title the source reports as missing or namespaced is appended to
\* the queue as a neighbor or appears in a path Walk returns, the target
\* included.
C14_UnavailableNeverQueued ==
    /\ \A i \in Enqueued : heap[i].Parent # 0 => heap[i].Title \notin Unavailable
    /\ (Returned /\ result.ok /\ s # t) =>
          \A k \in DOMAIN result.path : k > 1 => result.path[k] \notin Unavailable

\* A step of one of the goroutines of the current fan-out.
TaskStep ==
    /\ top' = top
    /\ DOMAIN calls' = DOMAIN calls
    /\ \E i \in DOMAIN calls : calls[i].go /\ calls'[i] # calls[i]

\* C15: a neighbor task leaves the visited set and the queue unchanged and
\* hands the traversal nothing but the one value it sends; the visited set
\* and the queue change only in the traversal's receive of a result (the
\* queue also when Walk first fills it with the start page).
C15_OnlyWalkWritesTraversalState ==
    [][/\ TaskStep =>
            /\ UNCHANGED <<visited, queue, heap, recvd, pc, result>>
            /\ pages' = pages \/ (\E v \in {Nil} \cup {calls'[i].ap : i \in DOMAIN calls'} :
                                    pages' = Append(pages, [v EXCEPT !.Parent = IF v = Nil THEN 0 ELSE top]))
       /\ visited' # visited =>
            /\ pc = "Recv" /\ pages # <<>> /\ pages' = Tail(pages)
            /\ visited' = visited \cup {Head(pages).Title}
       /\ queue' # queue =>
            \/ pc = "GetStart" /\ queue = <<>>
            \/ pc = "Loop" /\ queue' = Tail(queue)
            \/ /\ pc = "Recv" /\ pages # <<>> /\ pages' = Tail(pages)
               /\ queue' = Append(queue, Len(heap'))
               /\ heap'[Len(heap')] = Head(pages)]_vars

\* A task has sent its page and the page's title is not in the visited set.
C15_Witness ==
    /\ pc = "Recv"
    /\ visited # {}
    /\ \E k \in DOMAIN pages :
          /\ pages[k] # Nil
          /\ pages[k].Title \notin visited
          /\ pages[k].Title # t

\* C16: the parent chain of every page a task has produced leads to the
\* start without passing any title twice, so a path Walk returns repeats no
\* title.
C16_ParentChainsAreSimple ==
    /\ \A i \in Enqueued : NoRepeat(Trace(heap, i)) /\ Trace(heap, i)[1] = s
    /\ \A k \in DOMAIN pages : pages[k] # Nil => NoRepeat(NewPath(heap, pages[k]))
    /\ (Returned /\ result.ok) => NoRepeat(result.path)

\* C18: the first request of every GetAPIPage call carries no continuation
\* values, whatever an earlier call has left in the query template.
C18_FirstRequestHasNoContinuation ==
    \A r \in reqs : r.own = NoCont => r.cont = NoCont

\* C19: no task is about to read the visited map while Walk is about to
\* write an entry of it for a result of the same fan-out.
C19_VisitedReadsBeforeWrites ==
    ~(WritesVisited /\ \E i \in DOMAIN calls : calls[i].go /\ calls[i].pc = "check")

\* The goroutines of the current fan-out that have sent their value.
SentTasks == {i \in DOMAIN calls : calls[i].go /\ calls[i].pc = "done"}

\* C20: no task ever blocks on its send: the channel has room for a value
\* whenever a task is about to send, every task sends one value and no more,
\* so the values sent are those received plus those still buffered, also for
\* the tasks still running when Walk has returned the path.
C20_SendNeverBlocks ==
    /\ \A i \in DOMAIN calls :
          (calls[i].go /\ calls[i].pc = "send") => Len(pages) < ChanCap(heap[top])
    /\ (top # 0 /\ pc # "Loop") =>
          /\ Len(calls) = ChanCap(heap[top])
          /\ Cardinality(SentTasks) = recvd + Len(pages)
    /\ \A i \in DOMAIN calls : calls[i].pc = "done" => calls[i].res \in {"nil", "page"}

\* Walk has returned the path and the tasks it left running have all sent
\* their values, which stay in the channel.
C20_Witness ==
    /\ pc = "Done"
    /\ ending = "found"
    /\ Len(calls) >= 2
    /\ pages # <<>>
    /\ \A i \in DOMAIN calls : calls[i].pc = "done"

\* C17: when PopulateLinks returns nil for a page, p.Links holds every link
\* the source has for the page: those of each of its N pages of links, the
\* last page (the response without continuation) and the only page included.
C17_PopulateLinksIsComplete ==
    \A r \in returned :
        \A k \in DOMAIN SourceLinks(source, r.title) :
            \E j \in DOMAIN r.Links : r.Links[j] = SourceLinks(source, r.title)[k]

====
